---- MODULE Spec2Model ----
(***************************************************************************)
(* WeCare (src/app.py): the users / posts / comments store, the forum's   *)
(* moderation gate, the chat's distress triage and the per-browser        *)
(* session state, as a state machine.                                      *)
(*                                                                         *)
(* Text is a sequence of one-character strings, so that lower-casing,     *)
(* stripping and substring search are computed character by character.    *)
(* Long literal messages are sequences of their source lines.             *)
(***************************************************************************)
EXTENDS Integers, Sequences, FiniteSets, TLC

VARIABLES
    users,          \* rows of table users, in rowid order
    posts,          \* rows of table posts, in rowid order
    comments,       \* rows of table comments, in rowid order
    clock,          \* CURRENT_TIMESTAMP of the store, in whole seconds
    session_state,  \* st.session_state of each browser session: key -> value
    last,           \* what the most recent handler did (observation only)
    origin,         \* post id -> who submitted it (observation only)
    nChats          \* chat exchanges so far (bounds the exploration)

vars == << users, posts, comments, clock, session_state, last, origin, nChats >>

(***************************************************************************)
(* Bounds of the exploration.                                              *)
(***************************************************************************)
MaxUsers == 2
MaxPosts == 2
MaxComments == 3
MaxClock == 1
MaxChats == 2
MaxFrags == 3

Sessions == {"s1", "s2"}

(***************************************************************************)
(* Characters and Python's str methods.                                    *)
(***************************************************************************)
UPPER ==
  <<"A","B","C","D","E","F","G","H","I","J","K","L","M",
    "N","O","P","Q","R","S","T","U","V","W","X","Y","Z">>

LOWER ==
  <<"a","b","c","d","e","f","g","h","i","j","k","l","m",
    "n","o","p","q","r","s","t","u","v","w","x","y","z">>

WHITESPACE == {" ", "\t"}

lower_char(c) ==
    IF \E i \in 1..26 : UPPER[i] = c
    THEN LOWER[CHOOSE i \in 1..26 : UPPER[i] = c]
    ELSE c

\* Variant: no case folding at all.
lower_keeps_case(text) == text

\* str.lower()
lower(text) == [i \in 1..Len(text) |-> lower_char(text[i])]

RECURSIVE lstrip(_)
lstrip(text) ==
    IF text # <<>> /\ Head(text) \in WHITESPACE THEN lstrip(Tail(text)) ELSE text

RECURSIVE rstrip(_)
rstrip(text) ==
    IF text # <<>> /\ text[Len(text)] \in WHITESPACE
    THEN rstrip(SubSeq(text, 1, Len(text) - 1))
    ELSE text

\* Variant: the text is taken as typed, without trimming it.
strip_keeps_text(text) == text

\* str.strip()
strip(text) == rstrip(lstrip(text))

\* Python's `word in text` on strings
In(word, text) ==
    \E i \in 0..(Len(text) - Len(word)) : SubSeq(text, i + 1, i + Len(word)) = word

(***************************************************************************)
(* Moderation and triage.                                                  *)
(***************************************************************************)
FORBIDDEN_WORDS ==
  << <<"h","a","t","e">>,
     <<"v","i","o","l","e","n","c","e">>,
     <<"k","i","l","l">>,
     <<"d","r","u","g","s">>,
     <<"s","l","u","r">>,
     <<"e","x","p","l","i","c","i","t">>,
     <<"h","a","r","m"," ","m","y","s","e","l","f">>,
     <<"h","a","r","m"," ","o","t","h","e","r","s">>,
     <<"s","u","i","c","i","d","e">>,
     <<"m","u","r","d","e","r">>,
     <<"r","a","p","e">>,
     <<"s","e","x"," ","a","c","t">>,
     <<"c","h","i","l","d"," ","a","b","u","s","e">> >>

\* Variant: the text is searched as typed, without lower-casing it.
moderate_case_sensitive(text) ==
    \E k \in 1..Len(FORBIDDEN_WORDS) : In(FORBIDDEN_WORDS[k], text)

\* Variant: only the first term of the list is looked for.
moderate_first_term_only(text) == In(FORBIDDEN_WORDS[1], lower(text))

moderate_content(text) ==
    LET text_lower == lower(text)
    IN  \E k \in 1..Len(FORBIDDEN_WORDS) : In(FORBIDDEN_WORDS[k], text_lower)

\* Variant: the list without the two phrases the moderation list also has.
DISTRESS_KEYWORDS_own_phrases_only ==
  << <<"e","n","d"," ","i","t">>,
     <<"k","i","l","l"," ","m","y","s","e","l","f">>,
     <<"c","a","n","'","t"," ","c","o","p","e">>,
     <<"s","u","i","c","i","d","a","l">>,
     <<"s","e","l","f"," ","h","a","r","m">>,
     <<"o","v","e","r","d","o","s","e">>,
     <<"o","v","e","r","d","o","s","e","d">>,
     <<"w","a","n","t"," ","t","o"," ","d","i","e">>,
     <<"h","o","p","e","l","e","s","s">>,
     <<"w","o","r","t","h","l","e","s","s">>,
     <<"n","o"," ","p","o","i","n","t">> >>

DISTRESS_KEYWORDS ==
  << <<"e","n","d"," ","i","t">>,
     <<"k","i","l","l"," ","m","y","s","e","l","f">>,
     <<"c","a","n","'","t"," ","c","o","p","e">>,
     <<"s","u","i","c","i","d","a","l">>,
     <<"s","e","l","f"," ","h","a","r","m">>,
     <<"o","v","e","r","d","o","s","e">>,
     <<"o","v","e","r","d","o","s","e","d">>,
     <<"h","a","r","m"," ","m","y","s","e","l","f">>,
     <<"h","a","r","m"," ","o","t","h","e","r","s">>,
     <<"w","a","n","t"," ","t","o"," ","d","i","e">>,
     <<"h","o","p","e","l","e","s","s">>,
     <<"w","o","r","t","h","l","e","s","s">>,
     <<"n","o"," ","p","o","i","n","t">> >>

EMERGENCY_RESPONSE ==
  << "It sounds like you might be in serious distress. Please know you're not alone. ",
     "Here are some emergency contacts and steps you can take immediately:",
     "- **Kenya Red Cross Mental Health Hotline:** 1199 (24/7)",
     "- **Befrienders Kenya:** +254 722 178177 (7 AM - 7 PM)",
     "- **EMKF Suicide Prevention & Crisis Helpline:** 0800 723 253",
     "- Or dial your **local emergency services (e.g., 999 or 112 in Kenya)**.",
     "**Please reach out to a professional or trusted person right away. You deserve support.**",
     "_I'm an AI and cannot provide medical diagnosis or crisis intervention. Please seek immediate human professional help._" >>

\* Variant: the message is searched as typed, without lower-casing it.
detect_distress_case_sensitive(message) ==
    \E k \in 1..Len(DISTRESS_KEYWORDS) : In(DISTRESS_KEYWORDS[k], message)

detect_distress_ai(message) ==
    LET message_lower == lower(message)
    IN  \E k \in 1..Len(DISTRESS_KEYWORDS) : In(DISTRESS_KEYWORDS[k], message_lower)

\* The text before {str(e)} in the except branch of generate_ai_response.
FALLBACK_PREFIX ==
  << "I'm sorry, I'm having trouble connecting right now. Please try again later. Error: " >>

\* What openai.ChatCompletion.create can do: return a completion whose
\* content is some text, or raise an exception whose str() is some message.
ApiOutcomes ==
    { [raised |-> FALSE, text |-> <<" ","T","a","k","e"," ","c","a","r","e","."," ">>],
      [raised |-> TRUE,  text |-> <<"Request timed out.">>],
      [raised |-> TRUE,  text |-> <<"You exceeded your current quota.">>] }

\* Variant: the except branch returns the apology alone, without str(e).
generate_fixed_fallback(user_input, api) ==
    IF detect_distress_ai(user_input)
    THEN [reply |-> EMERGENCY_RESPONSE, called |-> FALSE]
    ELSE IF ~api.raised
         THEN [reply |-> strip(api.text), called |-> TRUE]
         ELSE [reply |-> FALLBACK_PREFIX, called |-> TRUE]

\* generate_ai_response(user_input), given what the external call does when
\* it is made.  `called` records whether the external call was made.
generate_ai_response(user_input, api) ==
    IF detect_distress_ai(user_input)
    THEN [reply |-> EMERGENCY_RESPONSE, called |-> FALSE]
    ELSE IF ~api.raised
         THEN [reply |-> strip(api.text), called |-> TRUE]
         ELSE [reply |-> FALLBACK_PREFIX \o api.text, called |-> TRUE]

(***************************************************************************)
(* Credentials.  bcrypt.gensalt() draws a fresh salt for every digest;    *)
(* bcrypt.checkpw re-hashes the candidate under the digest's own salt.    *)
(***************************************************************************)
Salts == {"salt1", "salt2"}

hash_password(password, salt) == [salt |-> salt, secret |-> password]

\* Variant: any password is taken to match.
check_password_any(password, hashed) == TRUE

check_password(password, hashed) == hash_password(password, hashed.salt) = hashed

(***************************************************************************)
(* The store (create_tables gives the columns; rows are never updated or  *)
(* deleted, so AUTOINCREMENT ids are 1, 2, ... in insertion order).        *)
(***************************************************************************)
Range(f) == {f[i] : i \in DOMAIN f}

\* Variant: no UNIQUE constraint on users.username.
username_never_taken(tbl, username) == FALSE

\* The UNIQUE constraint on users.username: the INSERT raises
\* sqlite3.IntegrityError when the name is already present.
username_taken(tbl, username) == \E i \in 1..Len(tbl) : tbl[i].username = username

add_user(tbl, username, hashed_password) ==
    Append(tbl, [id |-> Len(tbl) + 1, username |-> username,
                 password |-> hashed_password, role |-> "user"])

\* fetchone(): a sequence holding the row, or the empty sequence for None
get_user(tbl, username) ==
    IF username_taken(tbl, username)
    THEN << tbl[CHOOSE i \in 1..Len(tbl) : tbl[i].username = username] >>
    ELSE << >>

\* Variant: an anonymous post is stored without its author.
add_post_drops_author(tbl, user_id, content, anonymous, now) ==
    Append(tbl, [id |-> Len(tbl) + 1,
                 user_id |-> IF anonymous # 0 THEN 0 ELSE user_id,
                 content |-> content, timestamp |-> now, anonymous |-> anonymous])

add_post(tbl, user_id, content, anonymous, now) ==
    Append(tbl, [id |-> Len(tbl) + 1, user_id |-> user_id, content |-> content,
                 timestamp |-> now, anonymous |-> anonymous])

\* ORDER BY timestamp DESC: SQL leaves the order of rows with equal keys
\* open, so the result is any of the orders that respect the key.
RECURSIVE order_by_timestamp_desc(_)
order_by_timestamp_desc(rows) ==
    IF rows = {} THEN { << >> }
    ELSE UNION { { <<r>> \o rest : rest \in order_by_timestamp_desc(rows \ {r}) } :
                 r \in { x \in rows : \A y \in rows : x.timestamp >= y.timestamp } }

\* ORDER BY timestamp ASC
RECURSIVE order_by_timestamp_asc(_)
order_by_timestamp_asc(rows) ==
    IF rows = {} THEN { << >> }
    ELSE UNION { { <<r>> \o rest : rest \in order_by_timestamp_asc(rows \ {r}) } :
                 r \in { x \in rows : \A y \in rows : x.timestamp <= y.timestamp } }

\* The possible results of get_all_posts()
get_all_posts(tbl) == order_by_timestamp_desc(Range(tbl))

get_username_by_id(tbl, user_id) ==
    IF \E i \in 1..Len(tbl) : tbl[i].id = user_id
    THEN tbl[CHOOSE i \in 1..Len(tbl) : tbl[i].id = user_id].username
    ELSE <<"U","n","k","n","o","w","n">>

add_comment(tbl, post_id, user_id, content, now) ==
    Append(tbl, [id |-> Len(tbl) + 1, post_id |-> post_id, user_id |-> user_id,
                 content |-> content, timestamp |-> now])

\* Variant: the comments come newest first, like the posts.
comments_newest_first(tbl, post_id) ==
    order_by_timestamp_desc({ c \in Range(tbl) : c.post_id = post_id })

\* The rows picked by WHERE post_id = ? ORDER BY timestamp ASC
comments_of(tbl, post_id) ==
    order_by_timestamp_asc({ c \in Range(tbl) : c.post_id = post_id })

\* The possible results of get_comments(post_id): the selected columns
get_comments(tbl, post_id) ==
    { [i \in 1..Len(rows) |-> << rows[i].user_id, rows[i].content, rows[i].timestamp >>] :
      rows \in comments_of(tbl, post_id) }

\* The author shown for a listed post (forum_page)
author(tbl, post) ==
    IF post.anonymous # 0
    THEN <<"A","n","o","n","y","m","o","u","s">>
    ELSE get_username_by_id(tbl, post.user_id)

(***************************************************************************)
(* Session state and the script run (main).                                *)
(***************************************************************************)
Pages == <<"Home", "AI Helper", "Peer Support Forum", "Educational Hub",
           "Volunteers Directory">>

has(d, k) == k \in DOMAIN d

put(d, k, v) == [x \in (DOMAIN d) \cup {k} |-> IF x = k THEN v ELSE d[x]]

pop(d, keys) == [x \in (DOMAIN d) \ keys |-> d[x]]

\* The radio's value when the user has not touched it
default_choice(d) ==
    IF \E i \in 1..Len(Pages) : Pages[i] = d.current_page
    THEN d.current_page ELSE Pages[1]

\* Variant: the page starts a new history on every run.
ai_helper_page_fresh(d) == put(d, "chat_history", << >>)

\* ai_helper_page's effect on the session state before any input
ai_helper_page(d) ==
    IF has(d, "chat_history") THEN d ELSE put(d, "chat_history", << >>)

\* One run of main() with the sidebar radio at `choice`: the session state
\* it leaves (the button handlers are the actions below).
main(d, choice) ==
    LET a == IF has(d, "logged_in") THEN d ELSE put(d, "logged_in", FALSE)
        b == IF has(a, "current_page") THEN a ELSE put(a, "current_page", "Login")
    IN  IF ~b.logged_in THEN b
        ELSE LET c == put(b, "current_page", choice)
             IN  IF choice = "AI Helper" THEN ai_helper_page(c) ELSE c

\* What a handler did: its outcome, the text it was given, what
\* moderate_content returned (<< >> when it was not called), the reply it
\* produced and what the external call did (<< >> when it was not made).
Obs(op, outcome, input, mod, reply, api) ==
    [op |-> op, outcome |-> outcome, input |-> input,
     mod |-> mod, reply |-> reply, api |-> api]

Init ==
    /\ users = << >>
    /\ posts = << >>
    /\ comments = << >>
    /\ clock = 0
    /\ session_state = [s \in Sessions |-> main(<< >>, "Home")]
    /\ last = Obs("start", "none", << >>, << >>, << >>, << >>)
    /\ origin = << >>
    /\ nChats = 0

(***************************************************************************)
(* Inputs typed into the widgets.                                          *)
(***************************************************************************)
ann == <<"a","n","n">>

bob == <<"b","o","b">>

secret1 == <<"s","e","c","r","e","t","1">>

\* "ann", "bob", "al", ""
Usernames == { ann, bob, <<"a","l">>, << >> }

\* "secret1", "hunter22", "abc", ""
Passwords == { secret1, <<"h","u","n","t","e","r","2","2">>, <<"a","b","c">>, << >> }

\* "  ", " ok ", "I Hate"
BodyTexts == { <<" "," ">>, <<" ","o","k"," ">>, <<"I"," ","H","a","t","e">> }

\* "HOPELESS", "Kill Myself", "skill"
ChatTexts == { <<"H","O","P","E","L","E","S","S">>,
               <<"K","i","l","l"," ","M","y","s","e","l","f">>,
               <<"s","k","i","l","l">> }

\* Pieces of text: "hat", "e", "Kill", " ", "MYSELF", "harm", "Hope", "LESS",
\* "ok" and a tab.  The texts put to moderation are up to MaxFrags pieces.
Fragments == { <<"h","a","t">>, <<"e">>, <<"K","i","l","l">>, <<" ">>,
               <<"M","Y","S","E","L","F">>, <<"h","a","r","m">>,
               <<"H","o","p","e">>, <<"L","E","S","S">>, <<"o","k">>, <<"\t">> }

RECURSIVE TextsOf(_)
TextsOf(n) ==
    IF n = 0 THEN { << >> }
    ELSE TextsOf(n - 1) \cup { t \o f : t \in TextsOf(n - 1), f \in Fragments }

PureTexts == TextsOf(MaxFrags)

logged_in(s) == session_state[s].logged_in

on_page(s, page) == logged_in(s) /\ session_state[s].current_page = page

NoObs(op, outcome) == Obs(op, outcome, << >>, << >>, << >>, << >>)

(***************************************************************************)
(* login_page: the Login button.                                           *)
(***************************************************************************)
\* The session state after a successful login and the rerun it triggers:
\* main() runs again with the radio at its default.
login_success(d, user) ==
    LET e == put(put(put(put(d, "logged_in", TRUE),
                             "username", user.username),
                             "user_id", user.id),
                             "user_role", user.role)
    IN  main(e, default_choice(e))

Login(s, username, password) ==
    /\ ~logged_in(s)
    /\ LET user == get_user(users, username)
       IN  IF user # << >> /\ check_password(password, user[1].password)
           THEN /\ session_state' = [session_state EXCEPT ![s] = login_success(@, user[1])]
                /\ last' = NoObs("login", "success")
           ELSE /\ session_state' = session_state
                /\ last' = NoObs("login", "invalid")
    /\ UNCHANGED << users, posts, comments, clock, origin, nChats >>

(***************************************************************************)
(* login_page: the Register button.  Once the form is valid, add_user     *)
(* raises sqlite3.IntegrityError for a taken name, may raise another      *)
(* exception (the generic except branch), or inserts the row with a digest *)
(* under a fresh salt.                                                      *)
(***************************************************************************)
Register(s, new_user, new_password, confirm_password) ==
    /\ ~logged_in(s)
    /\ IF new_user = << >> \/ new_password = << >> \/ confirm_password = << >>
       THEN /\ last' = NoObs("register", "fill_all_fields")
            /\ users' = users
       ELSE IF Len(new_user) < 3
       THEN /\ last' = NoObs("register", "username_too_short")
            /\ users' = users
       ELSE IF Len(new_password) < 6
       THEN /\ last' = NoObs("register", "password_too_short")
            /\ users' = users
       ELSE IF new_password # confirm_password
       THEN /\ last' = NoObs("register", "passwords_differ")
            /\ users' = users
       ELSE IF username_taken(users, new_user)
       THEN /\ last' = Obs("register", "username_exists", new_user, << >>, << >>, << >>)
            /\ users' = users
       ELSE \/ /\ last' = Obs("register", "error", new_user, << >>, << >>, << >>)
               /\ users' = users
            \/ /\ Len(users) < MaxUsers
               /\ \E salt \in Salts :
                      users' = add_user(users, new_user, hash_password(new_password, salt))
               /\ last' = Obs("register", "success", new_user, << >>, << >>, << >>)
    /\ UNCHANGED << posts, comments, clock, session_state, origin, nChats >>

(***************************************************************************)
(* main: the sidebar radio and the Logout button.                          *)
(***************************************************************************)
Navigate(s, choice) ==
    /\ logged_in(s)
    /\ session_state' = [session_state EXCEPT ![s] = main(@, choice)]
    /\ last' = NoObs("navigate", choice)
    /\ UNCHANGED << users, posts, comments, clock, origin, nChats >>

SESSION_KEYS == {"logged_in", "username", "user_id", "user_role",
                 "chat_history", "current_page"}

Logout(s) ==
    /\ logged_in(s)
    /\ LET d == pop(session_state[s], SESSION_KEYS)
       IN  \* st.rerun(): main() runs again and renders the login page
           session_state' = [session_state EXCEPT ![s] = main(d, Pages[1])]
    /\ last' = NoObs("logout", "logged_out")
    /\ UNCHANGED << users, posts, comments, clock, origin, nChats >>

(***************************************************************************)
(* ai_helper_page: one chat input.                                         *)
(***************************************************************************)
Chat(s, user_input, api) ==
    /\ on_page(s, "AI Helper")
    /\ user_input # << >>
    /\ nChats < MaxChats
    /\ LET r == generate_ai_response(user_input, api)
           h == session_state[s].chat_history
           h1 == Append(h, [role |-> "user", content |-> user_input])
           h2 == Append(h1, [role |-> "assistant", content |-> r.reply])
       IN  /\ session_state' = [session_state EXCEPT ![s] = put(@, "chat_history", h2)]
           /\ last' = Obs("chat", "replied", user_input, << >>, r.reply,
                          IF r.called THEN << api >> ELSE << >>)
    /\ nChats' = nChats + 1
    /\ UNCHANGED << users, posts, comments, clock, origin >>

(***************************************************************************)
(* forum_page: the post form and the comment forms.                        *)
(***************************************************************************)
SubmitPost(s, content, anonymous) ==
    /\ on_page(s, "Peer Support Forum")
    /\ IF strip(content) = << >>
       THEN /\ last' = Obs("post", "empty", content, << >>, << >>, << >>)
            /\ UNCHANGED << posts, origin >>
       ELSE IF moderate_content(content)
       THEN /\ last' = Obs("post", "flagged", content, << TRUE >>, << >>, << >>)
            /\ UNCHANGED << posts, origin >>
       ELSE /\ Len(posts) < MaxPosts
            /\ posts' = add_post(posts, session_state[s].user_id, content,
                                 IF anonymous THEN 1 ELSE 0, clock)
            /\ origin' = Append(origin, [sess |-> s,
                                         username |-> session_state[s].username,
                                         anonymous |-> anonymous])
            /\ last' = Obs("post", "submitted", content, << FALSE >>, << >>, << >>)
    /\ UNCHANGED << users, comments, clock, session_state, nChats >>

SubmitComment(s, post_id, comment_input) ==
    /\ on_page(s, "Peer Support Forum")
    /\ post_id \in 1..Len(posts)
    /\ IF strip(comment_input) = << >>
       THEN /\ last' = Obs("comment", "empty", comment_input, << >>, << >>, << >>)
            /\ comments' = comments
       ELSE IF moderate_content(comment_input)
       THEN /\ last' = Obs("comment", "flagged", comment_input, << TRUE >>, << >>, << >>)
            /\ comments' = comments
       ELSE /\ Len(comments) < MaxComments
            /\ comments' = add_comment(comments, post_id, session_state[s].user_id,
                                       comment_input, clock)
            /\ last' = Obs("comment", "submitted", comment_input, << FALSE >>, << >>, << >>)
    /\ UNCHANGED << users, posts, clock, session_state, origin, nChats >>

(***************************************************************************)
(* The store's clock (CURRENT_TIMESTAMP has one-second granularity).      *)
(***************************************************************************)
Tick ==
    /\ clock < MaxClock
    /\ clock' = clock + 1
    /\ UNCHANGED << users, posts, comments, session_state, last, origin, nChats >>

(***************************************************************************)
(* The whole program: every handler, every input.                          *)
(***************************************************************************)
Next ==
    \/ \E s \in Sessions, u \in Usernames, p \in Passwords : Login(s, u, p)
    \/ \E s \in Sessions, u \in Usernames, p \in Passwords, c \in Passwords :
          Register(s, u, p, c)
    \/ \E s \in Sessions, i \in 1..Len(Pages) : Navigate(s, Pages[i])
    \/ \E s \in Sessions : Logout(s)
    \/ \E s \in Sessions, t \in ChatTexts, api \in ApiOutcomes : Chat(s, t, api)
    \/ \E s \in Sessions, t \in BodyTexts, a \in BOOLEAN : SubmitPost(s, t, a)
    \/ \E s \in Sessions, i \in 1..MaxPosts, t \in BodyTexts : SubmitComment(s, i, t)
    \/ Tick

Spec == Init /\ [][Next]_vars

(***************************************************************************)
(* Scenarios.  ann and bob have registered from their browsers s1 and s2  *)
(* and logged in; Spec reaches these states in four to six steps.          *)
(***************************************************************************)
TwoUsers ==
    add_user(add_user(<< >>, ann, hash_password(secret1, "salt1")),
             bob, hash_password(secret1, "salt2"))

owner(s) == TwoUsers[IF s = "s1" THEN 1 ELSE 2]

LoggedInAt(page) ==
    /\ users = TwoUsers
    /\ posts = << >>
    /\ comments = << >>
    /\ clock = 0
    /\ session_state =
         [s \in Sessions |-> main(login_success(main(<< >>, Pages[1]), owner(s)), page)]
    /\ origin = << >>
    /\ nChats = 0

\* Both browsers on the forum: both post while the clock runs.
InitForum ==
    /\ LoggedInAt("Peer Support Forum")
    /\ last = NoObs("navigate", "Peer Support Forum")

NextPosts ==
    \/ \E s \in Sessions, t \in BodyTexts, a \in BOOLEAN : SubmitPost(s, t, a)
    \/ Tick

SpecPosts == InitForum /\ [][NextPosts]_vars

\* Both browsers on the forum: ann posts under her name, bob comments on
\* the posts.
NextForum ==
    \/ \E t \in BodyTexts : SubmitPost("s1", t, FALSE)
    \/ \E i \in 1..MaxPosts, t \in BodyTexts : SubmitComment("s2", i, t)
    \/ Tick

SpecForum == InitForum /\ [][NextForum]_vars

\* Both browsers on the home page: they open pages, chat, log out and in.
InitChat ==
    /\ LoggedInAt("Home")
    /\ last = NoObs("login", "success")

NextChat ==
    \/ \E s \in Sessions, i \in 1..Len(Pages) : Navigate(s, Pages[i])
    \/ \E s \in Sessions, t \in ChatTexts, api \in ApiOutcomes : Chat(s, t, api)
    \/ \E s \in Sessions : Logout(s)
    \/ \E s \in Sessions, u \in Usernames, p \in Passwords : Login(s, u, p)

SpecChat == InitChat /\ [][NextChat]_vars

\* Registration and login from the start.
NextAuth ==
    \/ \E s \in Sessions, u \in Usernames, p \in Passwords, c \in Passwords :
          Register(s, u, p, c)
    \/ \E s \in Sessions, u \in Usernames, p \in Passwords : Login(s, u, p)
    \/ \E s \in Sessions, i \in 1..Len(Pages) : Navigate(s, Pages[i])
    \/ \E s \in Sessions : Logout(s)

SpecAuth == Init /\ [][NextAuth]_vars

\* moderate_content on its own, put to every text of PureTexts.
InitText ==
    /\ users = << >>
    /\ posts = << >>
    /\ comments = << >>
    /\ clock = 0
    /\ session_state = [s \in Sessions |-> main(<< >>, Pages[1])]
    /\ last \in { Obs("input", "given", t, << >>, << >>, << >>) : t \in PureTexts }
    /\ origin = << >>
    /\ nChats = 0

Moderate ==
    /\ last.op = "input"
    /\ last' = Obs("moderate_content", "returned", last.input,
                   << moderate_content(last.input) >>, << >>, << >>)
    /\ UNCHANGED << users, posts, comments, clock, session_state, origin, nChats >>

NextText == Moderate

SpecText == InitText /\ [][NextText]_vars

\* ann is on the forum in browser s1 while somebody registers from browser
\* s2: ann posts and comments on her first post, the forms of s2 are filled
\* in every way.
InitValidation ==
    /\ users = add_user(<< >>, ann, hash_password(secret1, "salt1"))
    /\ posts = << >>
    /\ comments = << >>
    /\ clock = 0
    /\ session_state =
         [s \in Sessions |->
            IF s = "s1"
            THEN main(login_success(main(<< >>, Pages[1]), owner(s)), "Peer Support Forum")
            ELSE main(<< >>, Pages[1])]
    /\ last = NoObs("navigate", "Peer Support Forum")
    /\ origin = << >>
    /\ nChats = 0

NextValidation ==
    \/ \E u \in Usernames, p \in Passwords, c \in Passwords : Register("s2", u, p, c)
    \/ \E t \in BodyTexts : SubmitPost("s1", t, FALSE)
    \/ \E t \in BodyTexts : SubmitComment("s1", 1, t)

SpecValidation == InitValidation /\ [][NextValidation]_vars

\* ann is on the home page in browser s1 and bob on the forum in browser
\* s2: s1 opens pages, chats, posts, logs out and logs in again under either
\* name, while s2 comments on the first post.
InitSession ==
    /\ users = TwoUsers
    /\ posts = << >>
    /\ comments = << >>
    /\ clock = 0
    /\ session_state =
         [s \in Sessions |->
            main(login_success(main(<< >>, Pages[1]), owner(s)),
                 IF s = "s1" THEN "Home" ELSE "Peer Support Forum")]
    /\ last = NoObs("navigate", "Peer Support Forum")
    /\ origin = << >>
    /\ nChats = 0

NextSession ==
    \/ \E u \in Usernames, p \in Passwords : Login("s1", u, p)
    \/ Logout("s1")
    \/ \E i \in 1..Len(Pages) : Navigate("s1", Pages[i])
    \/ \E api \in ApiOutcomes : ~api.raised /\ Chat("s1", <<"s","k","i","l","l">>, api)
    \/ SubmitPost("s1", <<" ","o","k"," ">>, FALSE)
    \/ SubmitComment("s2", 1, <<" ","o","k"," ">>)

SpecSession == InitSession /\ [][NextSession]_vars

(***************************************************************************)
(* Properties.  Containment "in any casing" is stated here letter by      *)
(* letter, independently of lower() and of Python's `in`.                  *)
(***************************************************************************)
same_letter(a, b) ==
    a = b \/ \E i \in 1..26 : {a, b} = {UPPER[i], LOWER[i]}

occurs_in_any_casing(term, text) ==
    \E i \in 1..Len(text) :
        /\ i + Len(term) - 1 <= Len(text)
        /\ \A j \in 1..Len(term) : same_letter(text[i + j - 1], term[j])

matched_terms(text) ==
    { k \in 1..Len(FORBIDDEN_WORDS) : occurs_in_any_casing(FORBIDDEN_WORDS[k], text) }

has_forbidden_term(text) == matched_terms(text) # {}

has_distress_phrase(text) ==
    \E k \in 1..Len(DISTRESS_KEYWORDS) : occurs_in_any_casing(DISTRESS_KEYWORDS[k], text)

chat_history_of(s) ==
    IF has(session_state[s], "chat_history") THEN session_state[s].chat_history ELSE << >>

\* C1: a chat message that contains a distress phrase in any casing is
\* answered with EMERGENCY_RESPONSE verbatim and the external call is not
\* made for it; in every chat history each such user turn is followed by
\* that message.
C1_DistressPreemptsGeneration ==
    /\ (last.op = "chat" /\ has_distress_phrase(last.input)) =>
           (last.reply = EMERGENCY_RESPONSE /\ last.api = << >>)
    /\ \A s \in Sessions :
         LET h == chat_history_of(s)
         IN  \A i \in 1..Len(h) :
                 (h[i].role = "user" /\ has_distress_phrase(h[i].content)) =>
                     /\ i < Len(h)
                     /\ h[i + 1] = [role |-> "assistant", content |-> EMERGENCY_RESPONSE]

\* C1 happens: "Kill Myself" was just answered with the emergency message.
C1_Witness ==
    /\ last.op = "chat"
    /\ last.input = <<"K","i","l","l"," ","M","y","s","e","l","f">>
    /\ last.reply = EMERGENCY_RESPONSE

\* C2: no body stored in posts or comments contains a forbidden term, and no
\* step that changes either table is a post or comment submission whose body
\* contains one.
C2_StoredBodiesAllowed ==
    /\ [](/\ \A i \in 1..Len(posts) : ~has_forbidden_term(posts[i].content)
          /\ \A i \in 1..Len(comments) : ~has_forbidden_term(comments[i].content))
    /\ [][(posts' # posts \/ comments' # comments)
              => ~(last'.op \in {"post", "comment"} /\ has_forbidden_term(last'.input))]_vars

\* C2 happens: with a post and a comment stored, a submission was flagged.
C2_Witness ==
    /\ Len(posts) >= 1
    /\ Len(comments) >= 1
    /\ last.outcome = "flagged"
    /\ has_forbidden_term(last.input)

\* C3: moderate_content returns True exactly for the texts in which some
\* forbidden term occurs in some casing.
C3_BlockedIffTermOccurs ==
    last.mod # << >> => (last.mod[1] <=> has_forbidden_term(last.input))

\* C3 happens: a text was blocked that holds no forbidden term as typed
\* (only with its capitals folded).
C3_Witness ==
    /\ last.op = "moderate_content"
    /\ last.mod = << TRUE >>
    /\ ~ \E k \in 1..Len(FORBIDDEN_WORDS) : In(FORBIDDEN_WORDS[k], last.input)

\* C4 as claimed: for a text with a forbidden term the result is not a bare
\* boolean but carries the matched terms, all of those that occur.
C4_ReturnsMatchedTerms ==
    (last.mod # << >> /\ has_forbidden_term(last.input)) =>
        /\ last.mod[1] \notin BOOLEAN
        /\ \A k \in matched_terms(last.input) : FORBIDDEN_WORDS[k] \in last.mod[1].matched

\* C4 as the code has it: the result of moderate_content is always a
\* boolean, and it is True for every text with a forbidden term, whichever
\* and however many of the terms occur.
C4_ReturnsTrueOnly ==
    last.mod # << >> =>
        /\ last.mod[1] \in BOOLEAN
        /\ has_forbidden_term(last.input) => last.mod[1] = TRUE

\* C4 happens: a text with two different forbidden terms was classified.
C4_Witness ==
    /\ last.op = "moderate_content"
    /\ Cardinality(matched_terms(last.input)) >= 2

\* C5 as claimed: once a post has been created, it is the first row of
\* whatever get_all_posts() returns.
C5_NewPostListedFirst ==
    (last.op = "post" /\ last.outcome = "submitted") =>
        \A l \in get_all_posts(posts) : l[1].id = Len(posts)

\* C6: get_all_posts() returns every post once, timestamps non-increasing;
\* get_comments(p) returns the selected columns of exactly the comments of
\* post p, timestamps non-decreasing.
C6_ListingsOrderedAndScoped ==
    /\ \A l \in get_all_posts(posts) :
         /\ Len(l) = Len(posts)
         /\ Range(l) = Range(posts)
         /\ \A i \in 1..(Len(l) - 1) : l[i].timestamp >= l[i + 1].timestamp
    /\ \A p \in 1..(MaxPosts + 1) :
         LET mine == { c \in Range(comments) : c.post_id = p }
         IN  \A r \in get_comments(comments, p) :
                 /\ Len(r) = Cardinality(mine)
                 /\ \A c \in mine :
                        \E i \in 1..Len(r) : r[i] = << c.user_id, c.content, c.timestamp >>
                 /\ \A i \in 1..(Len(r) - 1) : r[i][3] <= r[i + 1][3]

\* C6 happens: two posts of different seconds, the first with two comments
\* of different seconds, the second with a comment of its own.
C6_Witness ==
    /\ Len(posts) = 2
    /\ posts[1].timestamp # posts[2].timestamp
    /\ \E i, j, k \in 1..Len(comments) :
         /\ comments[i].post_id = 1
         /\ comments[j].post_id = 1
         /\ comments[i].timestamp # comments[j].timestamp
         /\ comments[k].post_id = 2

name_in(tbl, username) == username \in { tbl[i].username : i \in 1..Len(tbl) }

\* C7: no two rows of users share a username; a Register of a name that is
\* already there ends in the username-exists outcome, never in success or
\* the generic error, and leaves the table as it was.
C7_UsernamesUnique ==
    /\ [](\A i, j \in 1..Len(users) :
              users[i].username = users[j].username => i = j)
    /\ [][last'.op = "register" =>
              /\ last'.outcome = "username_exists" =>
                     (users' = users /\ name_in(users, last'.input))
              /\ last'.outcome \in {"success", "error"} =>
                     ~name_in(users, last'.input)]_vars

\* C7 happens: with two users registered, a Register of a taken name was
\* refused.
C7_Witness ==
    /\ Len(users) = 2
    /\ last.op = "register"
    /\ last.outcome = "username_exists"

is_fallback(content) == content # << >> /\ content[1] = FALLBACK_PREFIX[1]

fallback_replies ==
    UNION { { h[i].content : i \in { j \in 1..Len(h) : is_fallback(h[j].content) } } :
            h \in { chat_history_of(s) : s \in Sessions } }

\* C8 as claimed: whatever made the external call fail, the reply is one
\* and the same string.
C8_OneFallbackString == Cardinality(fallback_replies) <= 1

\* C8 as the code has it: when the external call raises, the reply is the
\* fixed apology followed by the text of the exception, so it differs from
\* one failure to another; nothing propagates: the exchange ends with that
\* reply as the assistant's turn.
C8_FallbackCarriesError ==
    last.op = "chat" =>
        /\ (last.api # << >> /\ last.api[1].raised) =>
               last.reply = FALLBACK_PREFIX \o last.api[1].text
        /\ \E s \in Sessions :
             LET h == chat_history_of(s)
             IN  /\ Len(h) >= 2
                 /\ h[Len(h) - 1] = [role |-> "user", content |-> last.input]
                 /\ h[Len(h)] = [role |-> "assistant", content |-> last.reply]

\* C8 happens: the external call just failed on its quota.
C8_Witness ==
    /\ last.op = "chat"
    /\ last.api # << >>
    /\ last.api[1].raised
    /\ last.api[1].text = <<"You exceeded your current quota.">>

alternating(h) ==
    /\ Len(h) % 2 = 0
    /\ \A i \in 1..Len(h) : h[i].role = IF i % 2 = 1 THEN "user" ELSE "assistant"

\* C9: a session's chat history is always user and assistant turns in
\* alternation, of even length; a step either leaves it as it is or appends
\* one user turn and one assistant turn to it; it goes away only when the
\* session logs out.
C9_HistoryAppendOnly ==
    /\ [](\A s \in Sessions : alternating(chat_history_of(s)))
    /\ [][\A s \in Sessions :
            has(session_state[s], "chat_history") =>
                IF has(session_state'[s], "chat_history")
                THEN LET h == session_state[s].chat_history
                         g == session_state'[s].chat_history
                     IN  \/ g = h
                         \/ /\ Len(g) = Len(h) + 2
                            /\ SubSeq(g, 1, Len(h)) = h
                            /\ g[Len(h) + 1].role = "user"
                            /\ g[Len(h) + 2].role = "assistant"
                ELSE ~session_state'[s].logged_in]_vars

\* C9 happens: a session has had two exchanges.
C9_Witness == \E s \in Sessions : Len(chat_history_of(s)) = 4

\* C10: every post carries the id of the user whose session submitted it,
\* anonymous or not; the flag is stored as submitted and only decides
\* whether the listing shows "Anonymous" or that user's name.
C10_AuthorRetained ==
    \A i \in 1..Len(posts) :
        /\ posts[i].user_id = owner(origin[i].sess).id
        /\ get_username_by_id(users, posts[i].user_id) = origin[i].username
        /\ (posts[i].anonymous = 1) = origin[i].anonymous
        /\ author(users, posts[i]) =
               IF origin[i].anonymous THEN <<"A","n","o","n","y","m","o","u","s">>
               ELSE origin[i].username

\* C10 happens: bob has an anonymous post and ann a signed one.
C10_Witness ==
    /\ \E i \in 1..Len(posts) : posts[i].anonymous = 1 /\ posts[i].user_id = 2
    /\ \E i \in 1..Len(posts) : posts[i].anonymous = 0 /\ posts[i].user_id = 1

in_both_sets(phrase) ==
    /\ \E k \in 1..Len(FORBIDDEN_WORDS) : FORBIDDEN_WORDS[k] = phrase
    /\ \E k \in 1..Len(DISTRESS_KEYWORDS) : DISTRESS_KEYWORDS[k] = phrase

shared_phrases ==
    { <<"h","a","r","m"," ","m","y","s","e","l","f">>,
      <<"h","a","r","m"," ","o","t","h","e","r","s">> }

\* C11 as claimed: no phrase is a member of both FORBIDDEN_WORDS and
\* DISTRESS_KEYWORDS, be it one of the listed terms or the lower-cased text
\* in hand.
C11_TermSetsDisjoint ==
    \A p \in Range(FORBIDDEN_WORDS) \cup { lower(last.input) } : ~in_both_sets(p)

\* C11 as the code has it: the phrases that are members of both lists are
\* exactly "harm myself" and "harm others"; a text that is one of them up to
\* casing is blocked by moderation and is also a distress message.
C11_TermSetsShareTwo ==
    /\ \A k \in 1..Len(FORBIDDEN_WORDS) :
           in_both_sets(FORBIDDEN_WORDS[k]) <=> FORBIDDEN_WORDS[k] \in shared_phrases
    /\ \A p \in shared_phrases : in_both_sets(p)
    /\ (last.mod # << >> /\ \E p \in shared_phrases :
                                 /\ Len(p) = Len(last.input)
                                 /\ occurs_in_any_casing(p, last.input)) =>
           (last.mod[1] = TRUE /\ detect_distress_ai(last.input))

\* C11 happens: "harm MYSELF", a phrase of both lists up to casing, was put
\* to moderation.
C11_Witness ==
    /\ last.op = "moderate_content"
    /\ last.input = <<"h","a","r","m"," ","M","Y","S","E","L","F">>
    /\ in_both_sets(lower(last.input))

blank(text) == \A i \in 1..Len(text) : text[i] \in WHITESPACE

invalid_registration(new_user, new_password, confirm_password) ==
    \/ Len(new_user) = 0
    \/ Len(new_password) = 0
    \/ Len(confirm_password) = 0
    \/ Len(new_user) <= 2
    \/ Len(new_password) <= 5
    \/ confirm_password # new_password

store == << users, posts, comments >>

\* C12: a Register whose form has an empty field, a username of fewer than
\* 3 characters, a password of fewer than 6 or a confirmation other than
\* the password leaves users, posts and comments as they were and does not
\* get as far as add_user (its outcome is none of success, username-exists,
\* error); a post or comment whose body is blank leaves them as they were
\* too, and moderate_content is not called for it.
C12_InvalidSubmissionsChangeNothing ==
    [][/\ \A s \in Sessions, u \in Usernames, p \in Passwords, c \in Passwords :
            (invalid_registration(u, p, c) /\ Register(s, u, p, c)) =>
                /\ store' = store
                /\ last'.op = "register"
                /\ last'.outcome \notin {"success", "username_exists", "error"}
       /\ (last'.op \in {"post", "comment"} /\ blank(last'.input)) =>
                /\ store' = store
                /\ last'.outcome = "empty"
                /\ last'.mod = << >>]_vars

\* C12 happens: with two users, a post and a comment in the store, a blank
\* comment was turned away.
C12_Witness ==
    /\ Len(users) = 2
    /\ Len(posts) >= 1
    /\ Len(comments) >= 1
    /\ last.op = "comment"
    /\ last.outcome = "empty"
    /\ last.input = <<" "," ">>

IDENTITY_KEYS == {"username", "user_id", "user_role"}

\* The session's identity fields are those of row i of users.
identity_is(d, i) ==
    /\ IDENTITY_KEYS \subseteq DOMAIN d
    /\ d.user_id = users[i].id
    /\ d.username = users[i].username
    /\ d.user_role = users[i].role

\* Nothing of a login is left in the session state.
signed_out(d) ==
    /\ d.logged_in = FALSE
    /\ (IDENTITY_KEYS \cup {"chat_history"}) \cap DOMAIN d = {}
    /\ d.current_page \notin Range(Pages)

\* C13: a logged-in session carries the id, name and role of one row of
\* users; a session becomes logged in only by a Login whose password, hashed
\* under the salt of that row's digest, gives the digest, and it then carries
\* that row's identity; a new post or comment comes from a logged-in session
\* and carries that session's user_id; a Logout leaves none of the identity
\* fields nor the chat history, logged_in false and no page selected; and a
\* session that is not logged in stays as it is until a successful Login.
C13_SessionIdentity ==
    /\ [](\A s \in Sessions :
              IF logged_in(s)
              THEN \E i \in 1..Len(users) : identity_is(session_state[s], i)
              ELSE signed_out(session_state[s]))
    /\ [][/\ \A s \in Sessions, u \in Usernames, p \in Passwords :
               (Login(s, u, p) /\ logged_in(s)') =>
                   \E i \in 1..Len(users) :
                       /\ users[i].username = u
                       /\ users[i].password = hash_password(p, users[i].password.salt)
                       /\ identity_is(session_state'[s], i)
          /\ \A s \in Sessions :
               /\ (~logged_in(s) /\ session_state'[s] # session_state[s]) =>
                       (logged_in(s)' /\ last'.op = "login" /\ last'.outcome = "success")
               /\ (logged_in(s) /\ ~logged_in(s)') =>
                       (last'.op = "logout" /\ signed_out(session_state'[s]))
          /\ posts' # posts =>
               /\ Len(posts') = Len(posts) + 1
               /\ SubSeq(posts', 1, Len(posts)) = posts
               /\ LET s == origin'[Len(posts')].sess
                  IN  /\ logged_in(s)
                      /\ posts'[Len(posts')].user_id = session_state[s].user_id
          /\ comments' # comments =>
               /\ Len(comments') = Len(comments) + 1
               /\ SubSeq(comments', 1, Len(comments)) = comments
               /\ \E s \in Sessions :
                      /\ logged_in(s)
                      /\ session_state'[s] = session_state[s]
                      /\ comments'[Len(comments')].user_id = session_state[s].user_id]_vars

\* C13 happens: browser s1 has posted under both names, has chatted and has
\* just logged out, and there is a comment.
C13_Witness ==
    /\ last.op = "logout"
    /\ ~logged_in("s1")
    /\ Len(posts) = 2
    /\ posts[1].user_id # posts[2].user_id
    /\ Len(comments) >= 1
    /\ nChats >= 1

====
